---- MODULE Spec2Model ----
(***************************************************************************)
(* Model of efeligne/video-downloader, package downloader: Download runs   *)
(* an external yt-dlp process, tees its stdout and stderr into per-stream  *)
(* buffers and optional caller sinks, and decodes progress lines from      *)
(* stdout into callback invocations.                                       *)
(*                                                                         *)
(* Strings are sequences of one-character strings.  The characters that    *)
(* occur are those of the streams and lines defined below; none of them is *)
(* an exponent marker ('e', 'p') or an underscore, so ParseFloat is        *)
(* modelled for the decimal, NaN and infinity forms only.                  *)
(***************************************************************************)
EXTENDS Integers, Sequences, FiniteSets, TLC

\* ------------------------------------------------------------------ bounds

\* longest chunk one pipe read hands to a writer
MaxChunk == 2
\* number of complete lines the child writes to stdout
MaxLines == 2
\* longest run of padding whitespace in a generated progress line
MaxPad == 2
MaxHeaders == 2
MaxSplit == 3

\* ------------------------------------------------------------ program constants

progressPartsCount == 3

\* ------------------------------------------------------------ string helpers

Streams == {"stdout", "stderr"}

\* unicode.IsSpace on the characters of the model
IsSpace(c) == c \in {" ", "\t", "\n", "\r"}

RECURSIVE TrimLeft(_)
TrimLeft(s) ==
    IF s # <<>> /\ IsSpace(Head(s)) THEN TrimLeft(Tail(s)) ELSE s

RECURSIVE TrimRight(_)
TrimRight(s) ==
    IF s # <<>> /\ IsSpace(s[Len(s)])
    THEN TrimRight(SubSeq(s, 1, Len(s) - 1))
    ELSE s

\* strings.TrimSpace, bytes.TrimSpace
TrimSpace(s) == TrimRight(TrimLeft(s))

\* strings.TrimSuffix(s, suffix) for a one-character suffix
TrimSuffix(s, c) ==
    IF s # <<>> /\ s[Len(s)] = c THEN SubSeq(s, 1, Len(s) - 1) ELSE s

\* index of the first occurrence of c in s, 0 when there is none
RECURSIVE IndexFrom(_, _, _)
IndexFrom(s, c, i) ==
    IF i > Len(s) THEN 0
    ELSE IF s[i] = c THEN i
    ELSE IndexFrom(s, c, i + 1)

\* strings.Split(s, sep) for a one-character separator
RECURSIVE Split(_, _)
Split(s, c) ==
    LET i == IndexFrom(s, c, 1)
    IN  IF i = 0 THEN <<s>>
        ELSE <<SubSeq(s, 1, i - 1)>> \o Split(SubSeq(s, i + 1, Len(s)), c)

\* simple case folding of one character
ToLower(c) ==
    CASE c = "N" -> "n"
      [] c = "A" -> "a"
      [] c = "I" -> "i"
      [] c = "F" -> "f"
      [] c = "M" -> "m"
      [] c = "B" -> "b"
      [] OTHER -> c

Lower(s) == [i \in 1..Len(s) |-> ToLower(s[i])]

\* strings.EqualFold
EqualFold(a, b) == Lower(a) = Lower(b)

Digits == {"0", "1", "2", "3", "4", "5", "6", "7", "8", "9"}

DigitVal(c) ==
    CASE c = "0" -> 0 [] c = "1" -> 1 [] c = "2" -> 2 [] c = "3" -> 3
      [] c = "4" -> 4 [] c = "5" -> 5 [] c = "6" -> 6 [] c = "7" -> 7
      [] c = "8" -> 8 [] c = "9" -> 9

\* a float64 value: mant / 10^frac with the sign, or NaN, or an infinity
Num(neg, mant, frac) == [kind |-> "num", neg |-> neg, mant |-> mant, frac |-> frac]
NaN == [kind |-> "nan", neg |-> FALSE, mant |-> 0, frac |-> 0]
Inf(neg) == [kind |-> "inf", neg |-> neg, mant |-> 0, frac |-> 0]

RECURSIVE Normalize(_, _, _)
Normalize(neg, mant, frac) ==
    IF frac > 0 /\ mant % 10 = 0
    THEN Normalize(neg, mant \div 10, frac - 1)
    ELSE Num(neg, mant, frac)

\* value of a string of digits
RECURSIVE DigitsVal(_)
DigitsVal(s) ==
    IF s = <<>> THEN 0
    ELSE 10 * DigitsVal(SubSeq(s, 1, Len(s) - 1)) + DigitVal(s[Len(s)])

AllDigits(s) == \A i \in 1..Len(s) : s[i] \in Digits

\* strconv.ParseFloat(s, 64): [ok, val]
ParseFloat(s) ==
    LET signed == s # <<>> /\ Head(s) \in {"+", "-"}
        neg == s # <<>> /\ Head(s) = "-"
        body == IF signed THEN Tail(s) ELSE s
        low == Lower(body)
        dot == IndexFrom(body, ".", 1)
        ip == IF dot = 0 THEN body ELSE SubSeq(body, 1, dot - 1)
        fp == IF dot = 0 THEN <<>> ELSE SubSeq(body, dot + 1, Len(body))
    IN  IF ~signed /\ low = <<"n", "a", "n">>
        THEN [ok |-> TRUE, val |-> NaN]
        ELSE IF low = <<"i", "n", "f">>
                \/ low = <<"i", "n", "f", "i", "n", "i", "t", "y">>
        THEN [ok |-> TRUE, val |-> Inf(neg)]
        ELSE IF AllDigits(ip) /\ AllDigits(fp) /\ Len(ip) + Len(fp) > 0
        THEN [ok |-> TRUE, val |-> Normalize(neg, DigitsVal(ip \o fp), Len(fp))]
        ELSE [ok |-> FALSE, val |-> Num(FALSE, 0, 0)]

\* ---------------------------------------------------------- progress decoding

ProgressUpdate(percent, eta, speed, raw) ==
    [Percent |-> percent, ETA |-> eta, Speed |-> speed, Raw |-> raw]

\* parseProgress without the check of the number of fields: missing fields
\* are taken as empty, fields after the third are dropped
parseProgress_AnyFieldCount(line) ==
    LET parts == Split(line, "|") \o <<<<>>, <<>>>>
        failed == [ok |-> FALSE,
                   upd |-> ProgressUpdate(Num(FALSE, 0, 0), <<>>, <<>>, line)]
        rawPercent == TrimSpace(TrimSuffix(parts[1], "%"))
        f == ParseFloat(rawPercent)
    IN  IF rawPercent = <<>> \/ EqualFold(rawPercent, <<"N", "/", "A">>)
        THEN failed
        ELSE IF ~f.ok THEN failed
        ELSE [ok |-> TRUE,
              upd |-> ProgressUpdate(f.val, TrimSpace(parts[2]),
                                     TrimSpace(parts[3]), line)]

\* parseProgress(line): [ok, upd]
parseProgress(line) ==
    LET parts == Split(line, "|")
        failed == [ok |-> FALSE,
                   upd |-> ProgressUpdate(Num(FALSE, 0, 0), <<>>, <<>>, line)]
    IN  IF Len(parts) # progressPartsCount THEN failed
        ELSE LET rawPercent == TrimSpace(TrimSuffix(parts[1], "%"))
                 eta == TrimSpace(parts[2])
                 speed == TrimSpace(parts[3])
                 f == ParseFloat(rawPercent)
             IN  IF rawPercent = <<>> \/ EqualFold(rawPercent, <<"N", "/", "A">>)
                 THEN failed
                 ELSE IF ~f.ok THEN failed
                 ELSE [ok |-> TRUE,
                       upd |-> ProgressUpdate(f.val, eta, speed, line)]

NoUpdate == ProgressUpdate(Num(FALSE, 0, 0), <<>>, <<>>, <<>>)

\* FeedLoop with lineBuf.Reset() only after a line that decoded
RECURSIVE FeedLoop_KeepFailedLine(_, _)
FeedLoop_KeepFailedLine(lb, bs) ==
    IF bs = <<>>
    THEN [lineBuf |-> lb, rest |-> <<>>, called |-> FALSE, upd |-> NoUpdate]
    ELSE LET b == Head(bs)
             lb2 == Append(lb, b)
         IN  IF b = "\n"
             THEN LET p == parseProgress(TrimSpace(lb2))
                  IN  IF p.ok
                      THEN [lineBuf |-> <<>>, rest |-> Tail(bs),
                            called |-> TRUE, upd |-> p.upd]
                      ELSE FeedLoop_KeepFailedLine(lb2, Tail(bs))
             ELSE FeedLoop_KeepFailedLine(lb2, Tail(bs))

\* FeedLoop with lineBuf.Reset() only after a line that did not decode
RECURSIVE FeedLoop_KeepDecodedLine(_, _)
FeedLoop_KeepDecodedLine(lb, bs) ==
    IF bs = <<>>
    THEN [lineBuf |-> lb, rest |-> <<>>, called |-> FALSE, upd |-> NoUpdate]
    ELSE LET b == Head(bs)
             lb2 == Append(lb, b)
         IN  IF b = "\n"
             THEN LET p == parseProgress(TrimSpace(lb2))
                  IN  IF p.ok
                      THEN [lineBuf |-> lb2, rest |-> Tail(bs),
                            called |-> TRUE, upd |-> p.upd]
                      ELSE FeedLoop_KeepDecodedLine(<<>>, Tail(bs))
             ELSE FeedLoop_KeepDecodedLine(lb2, Tail(bs))

\* FeedLoop that also decodes the pending line when the chunk ends
RECURSIVE FeedLoop_FlushAtChunkEnd(_, _)
FeedLoop_FlushAtChunkEnd(lb, bs) ==
    IF bs = <<>>
    THEN LET p == parseProgress(TrimSpace(lb))
         IN  IF p.ok
             THEN [lineBuf |-> <<>>, rest |-> <<>>, called |-> TRUE, upd |-> p.upd]
             ELSE [lineBuf |-> lb, rest |-> <<>>, called |-> FALSE, upd |-> NoUpdate]
    ELSE LET b == Head(bs)
             lb2 == Append(lb, b)
         IN  IF b = "\n"
             THEN LET p == parseProgress(TrimSpace(lb2))
                  IN  IF p.ok
                      THEN [lineBuf |-> <<>>, rest |-> Tail(bs),
                            called |-> TRUE, upd |-> p.upd]
                      ELSE FeedLoop_FlushAtChunkEnd(<<>>, Tail(bs))
             ELSE FeedLoop_FlushAtChunkEnd(lb2, Tail(bs))

\* the byte loop of the stdout writer, run until it invokes the callback or
\* the bytes are used up: the pending line, the bytes left, and the update
\* the callback is invoked with
RECURSIVE FeedLoop(_, _)
FeedLoop(lb, bs) ==
    IF bs = <<>>
    THEN [lineBuf |-> lb, rest |-> <<>>, called |-> FALSE, upd |-> NoUpdate]
    ELSE LET b == Head(bs)
             lb2 == Append(lb, b)
         IN  IF b = "\n"
             THEN LET p == parseProgress(TrimSpace(lb2))
                  IN  IF p.ok
                      THEN [lineBuf |-> <<>>, rest |-> Tail(bs),
                            called |-> TRUE, upd |-> p.upd]
                      ELSE FeedLoop(<<>>, Tail(bs))
             ELSE FeedLoop(lb2, Tail(bs))

\* -------------------------------------------------------------- the arguments

\* the tokens buildArgs writes, as sequences of characters
FlagNewline ==
    <<"-", "-", "n", "e", "w", "l", "i", "n", "e">>
FlagProgressTemplate ==
    <<"-", "-", "p", "r", "o", "g", "r", "e", "s", "s", "-", "t", "e", "m",
      "p", "l", "a", "t", "e">>
FlagNoProgress ==
    <<"-", "-", "n", "o", "-", "p", "r", "o", "g", "r", "e", "s", "s">>
FlagOutput ==
    <<"-", "o">>
FlagFormat ==
    <<"-", "f">>
FlagProxy ==
    <<"-", "-", "p", "r", "o", "x", "y">>
FlagCookies ==
    <<"-", "-", "c", "o", "o", "k", "i", "e", "s">>
FlagAddHeader ==
    <<"-", "-", "a", "d", "d", "-", "h", "e", "a", "d", "e", "r">>
progressTemplate ==
    <<"%", "(", "p", "r", "o", "g", "r", "e", "s", "s", ".", "_", "p", "e",
      "r", "c", "e", "n", "t", "_", "s", "t", "r", ")", "s", "|", "%", "(",
      "p", "r", "o", "g", "r", "e", "s", "s", ".", "_", "e", "t", "a", "_",
      "s", "t", "r", ")", "s", "|", "%", "(", "p", "r", "o", "g", "r", "e",
      "s", "s", ".", "_", "s", "p", "e", "e", "d", "_", "s", "t", "r", ")",
      "s">>

\* the byte of a character of a header name
Byte(c) ==
    CASE c = "A" -> 65
      [] c = "Z" -> 90
      [] c = "a" -> 97

\* a < b as Go compares strings: byte by byte, a proper prefix first
RECURSIVE StrLess(_, _)
StrLess(a, b) ==
    IF b = <<>> THEN FALSE
    ELSE IF a = <<>> THEN TRUE
    ELSE IF Head(a) # Head(b) THEN Byte(Head(a)) < Byte(Head(b))
    ELSE StrLess(Tail(a), Tail(b))

\* k put into the ascending sequence ks
RECURSIVE Insert(_, _)
Insert(k, ks) ==
    IF ks = <<>> THEN <<k>>
    ELSE IF StrLess(k, Head(ks)) THEN <<k>> \o ks
    ELSE <<Head(ks)>> \o Insert(k, Tail(ks))

\* SortStrings that leaves the keys in the order the map gave them
SortStrings_MapOrder(ks) == ks

\* sort.Strings(keys)
RECURSIVE SortStrings(_)
SortStrings(ks) ==
    IF ks = <<>> THEN <<>> ELSE Insert(Head(ks), SortStrings(Tail(ks)))

\* the flag and value of an option that is set
Opt(flag, v) == IF v = <<>> THEN <<>> ELSE <<flag, v>>

\* the loop over the sorted header names
RECURSIVE HeaderArgs(_, _)
HeaderArgs(keys, headers) ==
    IF keys = <<>> THEN <<>>
    ELSE LET headerKey == Head(keys)
             v == TrimSpace(headers[headerKey])
         IN  (IF v = <<>> THEN <<>>
              ELSE <<FlagAddHeader, headerKey \o <<":">> \o v>>)
             \o HeaderArgs(Tail(keys), headers)

\* buildArgs(url, opts); order is the order in which the range over
\* opts.Headers yields the keys
buildArgs(u, o, order) ==
    <<FlagNewline>>
    \o (IF o.Progress THEN <<FlagProgressTemplate, progressTemplate>>
        ELSE <<FlagNoProgress>>)
    \o Opt(FlagOutput, o.OutputTemplate)
    \o Opt(FlagFormat, o.Format)
    \o Opt(FlagProxy, o.Proxy)
    \o Opt(FlagCookies, o.CookiesFile)
    \o HeaderArgs(SortStrings(order), o.Headers)
    \o o.ExtraArgs
    \o <<u>>

\* ------------------------------------------------------------------ writers

\* teeWrite with the buffer written before the sink is asked
teeWrite_AccumulateOnError(hasExtra, b, c, outcome) ==
    IF ~hasExtra THEN [buf |-> b \o c, err |-> "nil"]
    ELSE IF outcome = "err" THEN [buf |-> b \o c, err |-> "sink error"]
    ELSE IF outcome = "short" THEN [buf |-> b \o c, err |-> "short write"]
    ELSE [buf |-> b \o c, err |-> "nil"]

\* the writer returned by teeWriter(extra), written one chunk; outcome is what
\* the write to extra did ("ok", "err", or "short": fewer bytes, no error)
teeWrite(hasExtra, b, c, outcome) ==
    IF ~hasExtra THEN [buf |-> b \o c, err |-> "nil"]
    ELSE IF outcome = "err" THEN [buf |-> b, err |-> "sink error"]
    ELSE IF outcome = "short" THEN [buf |-> b, err |-> "short write"]
    ELSE [buf |-> b \o c, err |-> "nil"]

\* progressHead with buf.Write moved before extra.Write
progressHead_BufferFirst(hasExtra, b, c, outcome) ==
    IF hasExtra /\ outcome = "err"
    THEN [buf |-> b \o c, err |-> "write passthrough"]
    ELSE [buf |-> b \o c, err |-> "nil"]

\* progressHead with the buffer reset on every write
progressHead_Overwrite(hasExtra, b, c, outcome) ==
    IF hasExtra /\ outcome = "err"
    THEN [buf |-> b, err |-> "write passthrough"]
    ELSE [buf |-> c, err |-> "nil"]

\* the writer of progressWriter(callback, extra) up to the byte loop
progressHead(hasExtra, b, c, outcome) ==
    IF hasExtra /\ outcome = "err"
    THEN [buf |-> b, err |-> "write passthrough"]
    ELSE [buf |-> b \o c, err |-> "nil"]

\* ------------------------------------------------------------------- streams

DigitChar(i) == CHOOSE c \in Digits : DigitVal(c) = i

\* the i-th line of a stdout stream: a progress record of i percent, or a log line
ProgressLine(i) == <<DigitChar(i), "|", "|">>
LogLine == <<"x">>
LineChoices(i) == {ProgressLine(i), LogLine}
\* a progress record the child never terminates with a line feed
PartialLine == ProgressLine(9)

RECURSIVE JoinLines(_)
JoinLines(ls) ==
    IF ls = <<>> THEN <<>> ELSE Head(ls) \o <<"\n">> \o JoinLines(Tail(ls))

LineSeqs(n) == {ls \in [1..n -> {ProgressLine(i) : i \in 1..n} \cup {LogLine}] :
                   \A i \in 1..n : ls[i] \in LineChoices(i)}

\* what the child writes to stdout if it lives long enough: complete lines,
\* then a partial line; it may exit after any prefix
StdoutStreams == {JoinLines(ls) \o PartialLine : ls \in LineSeqs(MaxLines)}

\* what the child may write to stderr
StderrStreams == {<<"E", "\n">>}

Min(a, b) == IF a < b THEN a ELSE b

\* ---------------------------------------------------------------------- state

VARIABLES
    pc,        \* "new", "newFailed", "ready", "running", "ran", "returned"
    binPath,   \* Downloader.binPath
    newErr,    \* error of New
    url,       \* Download's url
    opts,      \* which of Options.Progress, Stdout, Stderr are set, and whether
               \* Stdout and Stderr are one object
    ctxDone,   \* ctx.Err() # nil
    proc,      \* "none", "running", "exit0", "exit1", "killed"
    src,       \* per stream, the bytes the child writes if it lives long enough
    pos,       \* per stream, how many of them were read from the pipe
    chunk,     \* per stream, the chunk in the writer's hands, or that it failed on
    wpc,       \* per stream: "idle", "sink", "cb", "failed", "done"
    buf,       \* per stream, the accumulation buffer
    lineBuf,   \* the pending line of the stdout writer
    rest,      \* bytes of the current stdout chunk the byte loop has not seen
    calls,     \* the updates the callback was invoked with, in order
    cbReturned,\* how many of these invocations have returned
    sinkSeen,  \* per stream, the caller's sink: "unused", "written", "erred"
    werr,      \* per stream, the error the writer returned to the copy
    runErr,    \* error of cmd.Run: "nil", "ctx", "start", "exit", "copy"
    failCtx,   \* ctxDone when the run first failed: "none", "yes", "no"
    result,    \* the *Result Download returned
    err,       \* the error Download returned
    pLine,     \* SpecParse: the line written to the stdout writer
    pCalls,    \* SpecParse: the updates the callback got so far
    pPending,  \* SpecParse: the pending line after the last write
    pErr,      \* SpecParse: the error the last write returned
    pState,    \* SpecParse: "off", "line", "decoded", "next"
    aOpts,     \* SpecArgs: the Options given to buildArgs
    aOrder,    \* SpecArgs: the order of the map's keys in each of two builds
    aArgs,     \* SpecArgs: the arguments of the two builds
    aState,    \* SpecArgs: "off", "opts", "built"
    wIn,       \* SpecWriters: the bytes not yet written to the two writers
    wExtra,    \* SpecWriters: whether the writers have a sink
    wP,        \* SpecWriters: the writer of progressWriter(callback, extra)
    wT,        \* SpecWriters: the writer of teeWriter(extra)
    wChunk,    \* SpecWriters: the chunk of the last write
    wOutcome,  \* SpecWriters: what the sink did with it
    wSink,     \* SpecWriters: the bytes the sink took without an error
    wState,    \* SpecWriters: "off", "open"
    cStream,   \* SpecChunks: the stdout bytes of the child
    cPos,      \* SpecChunks: how many of them each of two writers was written
    cWrites,   \* SpecChunks: in how many writes
    cW,        \* SpecChunks: the two writers, each with a callback and no sink
    cState     \* SpecChunks: "off", "open"

dlVars == <<pc, binPath, newErr, url, opts, ctxDone, proc, src, pos, chunk, wpc,
            buf, lineBuf, rest, calls, cbReturned, sinkSeen, werr, runErr,
            failCtx, result, err>>
pVars == <<pLine, pCalls, pPending, pErr, pState>>
\* the variables of the other specifications
aVars == <<aOpts, aOrder, aArgs, aState>>
wVars == <<wIn, wExtra, wP, wT, wChunk, wOutcome, wSink, wState>>
cVars == <<cStream, cPos, cWrites, cW, cState>>
otherVars == <<pVars, aVars, wVars, cVars>>
vars == <<dlVars, otherVars>>

NilResult == [isNil |-> TRUE, Stdout |-> <<>>, Stderr |-> <<>>]
Result(out, errb) == [isNil |-> FALSE, Stdout |-> out, Stderr |-> errb]
NoErr == [kind |-> "nil", cause |-> "nil", stderr |-> <<>>]
Err(kind, cause, text) == [kind |-> kind, cause |-> cause, stderr |-> text]

EachStream(v) == [s \in Streams |-> v]

InitDownload ==
    /\ pc = "new"
    /\ binPath = ""
    /\ newErr = "nil"
    /\ url = ""
    /\ opts = [Progress |-> FALSE, Stdout |-> FALSE, Stderr |-> FALSE,
               SameSink |-> FALSE]
    /\ ctxDone = FALSE
    /\ proc = "none"
    /\ src = EachStream(<<>>)
    /\ pos = EachStream(0)
    /\ chunk = EachStream(<<>>)
    /\ wpc = EachStream("idle")
    /\ buf = EachStream(<<>>)
    /\ lineBuf = <<>>
    /\ rest = <<>>
    /\ calls = <<>>
    /\ cbReturned = 0
    /\ sinkSeen = EachStream("unused")
    /\ werr = EachStream("nil")
    /\ runErr = "nil"
    /\ failCtx = "none"
    /\ result = NilResult
    /\ err = NoErr

NoOptions ==
    [Progress |-> FALSE, OutputTemplate |-> <<>>, Format |-> <<>>, Proxy |-> <<>>,
     CookiesFile |-> <<>>, Headers |-> <<>>, ExtraArgs |-> <<>>]

InitParseOff ==
    /\ pLine = <<>>
    /\ pCalls = <<>>
    /\ pPending = <<>>
    /\ pErr = "nil"
    /\ pState = "off"

InitArgsOff ==
    /\ aOpts = NoOptions
    /\ aOrder = <<>>
    /\ aArgs = <<>>
    /\ aState = "off"

\* a progress writer and a tee writer nothing was written to
NewProgressWriter ==
    [buf |-> <<>>, lineBuf |-> <<>>, calls |-> <<>>, n |-> 0, err |-> "nil"]
NewTeeWriter == [buf |-> <<>>, err |-> "nil"]

InitWritersOff ==
    /\ wIn = <<>>
    /\ wExtra = FALSE
    /\ wP = NewProgressWriter
    /\ wT = NewTeeWriter
    /\ wChunk = <<>>
    /\ wOutcome = "none"
    /\ wSink = <<>>
    /\ wState = "off"

\* two runs over the same stdout bytes
Runs == {"A", "B"}

InitChunksOff ==
    /\ cStream = <<>>
    /\ cPos = [x \in Runs |-> 0]
    /\ cWrites = [x \in Runs |-> 0]
    /\ cW = [x \in Runs |-> NewProgressWriter]
    /\ cState = "off"

InitOther ==
    /\ InitParseOff
    /\ InitArgsOff
    /\ InitWritersOff
    /\ InitChunksOff

Init ==
    /\ InitDownload
    /\ InitOther

\* -------------------------------------------------------------------- actions

HasExtra(s) == IF s = "stdout" THEN opts.Stdout ELSE opts.Stderr

CtxNow == IF ctxDone THEN "yes" ELSE "no"

\* New(binaryPath); "missing" is a path os.Stat fails on
New(path) ==
    /\ pc = "new"
    /\ IF path = ""
       THEN /\ pc' = "newFailed"
            /\ newErr' = "errEmptyBinaryPath"
            /\ UNCHANGED binPath
       ELSE IF path = "missing"
       THEN /\ pc' = "newFailed"
            /\ newErr' = "stat yt-dlp binary"
            /\ UNCHANGED binPath
       ELSE /\ pc' = "ready"
            /\ binPath' = path
            /\ UNCHANGED newErr
    /\ UNCHANGED <<url, opts, ctxDone, proc, src, pos, chunk, wpc, buf, lineBuf,
                   rest, calls, sinkSeen, werr, runErr,
                   failCtx, result, err>>
    /\ UNCHANGED cbReturned
    /\ UNCHANGED otherVars

\* a Downloader value that did not come from New: binPath is empty
ZeroValue ==
    /\ pc = "new"
    /\ pc' = "ready"
    /\ binPath' = ""
    /\ UNCHANGED <<newErr, url, opts, ctxDone, proc, src, pos, chunk, wpc, buf,
                   lineBuf, rest, calls, sinkSeen, werr,
                   runErr, failCtx, result, err>>
    /\ UNCHANGED cbReturned
    /\ UNCHANGED otherVars

\* the caller cancels ctx, or its deadline passes
Cancel ==
    /\ pc \in {"ready", "running", "ran"}
    /\ ~ctxDone
    /\ ctxDone' = TRUE
    /\ UNCHANGED <<pc, binPath, newErr, url, opts, proc, src, pos, chunk, wpc,
                   buf, lineBuf, rest, calls, sinkSeen, werr,
                   runErr, failCtx, result, err>>
    /\ UNCHANGED cbReturned
    /\ UNCHANGED otherVars

\* ConfigError without the check of binPath
ConfigError_NoBinaryCheck(u, bp) ==
    IF u = "" THEN "errURLRequired" ELSE "nil"

\* the checks Download makes before it builds the command
ConfigError(u, bp) ==
    IF u = "" THEN "errURLRequired"
    ELSE IF bp = "" THEN "errBinaryNotConfigured"
    ELSE "nil"

\* Download up to and including cmd.Start: the checks of url and binPath, the
\* writers, and the launch.  started is whether os.StartProcess succeeds.
DownloadCall(u, o, started, out, errs) ==
    /\ pc = "ready"
    /\ url' = u
    /\ opts' = o
    /\ IF ConfigError(u, binPath) # "nil"
       THEN /\ pc' = "returned"
            /\ result' = NilResult
            /\ err' = Err(ConfigError(u, binPath), "nil", <<>>)
            /\ UNCHANGED <<proc, src, runErr, failCtx>>
       ELSE IF ctxDone
       THEN /\ pc' = "ran"
            /\ runErr' = "ctx"
            /\ failCtx' = "yes"
            /\ UNCHANGED <<proc, src, result, err>>
       ELSE IF ~started
       THEN /\ pc' = "ran"
            /\ runErr' = "start"
            /\ failCtx' = "no"
            /\ UNCHANGED <<proc, src, result, err>>
       ELSE /\ pc' = "running"
            /\ proc' = "running"
            /\ src' = [stdout |-> out, stderr |-> errs]
            /\ UNCHANGED <<runErr, failCtx, result, err>>
    /\ UNCHANGED <<binPath, newErr, ctxDone, pos, chunk, wpc, buf, lineBuf, rest,
                   calls, sinkSeen, werr>>
    /\ UNCHANGED cbReturned
    /\ UNCHANGED otherVars

\* the child exits by itself
Exit(status) ==
    /\ pc = "running"
    /\ proc = "running"
    /\ proc' = IF status = 0 THEN "exit0" ELSE "exit1"
    /\ failCtx' = IF status # 0 /\ failCtx = "none" THEN CtxNow ELSE failCtx
    /\ UNCHANGED <<pc, binPath, newErr, url, opts, ctxDone, src, pos, chunk, wpc,
                   buf, lineBuf, rest, calls, sinkSeen, werr,
                   runErr, result, err>>
    /\ UNCHANGED cbReturned
    /\ UNCHANGED otherVars

\* exec.CommandContext kills the child once ctx is done
Kill ==
    /\ pc = "running"
    /\ proc = "running"
    /\ ctxDone
    /\ proc' = "killed"
    /\ failCtx' = IF failCtx = "none" THEN "yes" ELSE failCtx
    /\ UNCHANGED <<pc, binPath, newErr, url, opts, ctxDone, src, pos, chunk, wpc,
                   buf, lineBuf, rest, calls, sinkSeen, werr,
                   runErr, result, err>>
    /\ UNCHANGED cbReturned
    /\ UNCHANGED otherVars

\* the writer of stream s handles chunk c after the write to the sink, if any,
\* did outcome; for stdout with a callback, up to the first callback invocation
Deliver(s, c, outcome) ==
    IF s = "stdout" /\ opts.Progress
    THEN LET h == progressHead(opts.Stdout, buf[s], c, outcome)
             f == FeedLoop(lineBuf, c)
         IN  /\ buf' = [buf EXCEPT ![s] = h.buf]
             /\ werr' = [werr EXCEPT ![s] = h.err]
             /\ chunk' = [chunk EXCEPT ![s] = IF h.err # "nil" THEN c ELSE <<>>]
             /\ IF h.err # "nil"
                THEN /\ wpc' = [wpc EXCEPT ![s] = "failed"]
                     /\ failCtx' = IF failCtx = "none" THEN CtxNow ELSE failCtx
                     /\ UNCHANGED <<lineBuf, rest, calls>>
                ELSE /\ lineBuf' = f.lineBuf
                     /\ rest' = f.rest
                     /\ calls' = IF f.called THEN Append(calls, f.upd) ELSE calls
                     /\ wpc' = [wpc EXCEPT ![s] = IF f.called THEN "cb" ELSE "idle"]
                     /\ UNCHANGED failCtx
    ELSE LET r == teeWrite(HasExtra(s), buf[s], c, outcome)
         IN  /\ buf' = [buf EXCEPT ![s] = r.buf]
             /\ werr' = [werr EXCEPT ![s] = r.err]
             /\ chunk' = [chunk EXCEPT ![s] = IF r.err # "nil" THEN c ELSE <<>>]
             /\ wpc' = [wpc EXCEPT ![s] = IF r.err # "nil" THEN "failed" ELSE "idle"]
             /\ failCtx' = IF r.err # "nil" /\ failCtx = "none"
                           THEN CtxNow ELSE failCtx
             /\ UNCHANGED <<lineBuf, rest, calls>>

\* CopyIdle with the next write to stdout started while a callback is running
CopyIdle_DuringCallback(s) == wpc[s] \in {"idle", "cb"}

\* cmd.Stdout and cmd.Stderr each have one copy goroutine, which calls its
\* writer again only after the previous Write returned
CopyIdle(s) == wpc[s] = "idle"

\* io.Copy reads the next k bytes of the pipe of stream s and calls the writer;
\* with a sink configured the writer first calls the sink's Write
Read(s, k) ==
    /\ pc = "running"
    /\ proc = "running"
    /\ CopyIdle(s)
    /\ k \in 1..Min(MaxChunk, Len(src[s]) - pos[s])
    /\ LET c == SubSeq(src[s], pos[s] + 1, pos[s] + k)
       IN  /\ pos' = [pos EXCEPT ![s] = pos[s] + k]
           /\ IF HasExtra(s)
              THEN /\ wpc' = [wpc EXCEPT ![s] = "sink"]
                   /\ chunk' = [chunk EXCEPT ![s] = c]
                   /\ sinkSeen' = [sinkSeen EXCEPT ![s] = "written"]
                   /\ UNCHANGED <<buf, werr, failCtx, lineBuf, rest, calls>>
              ELSE /\ Deliver(s, c, "none")
                   /\ UNCHANGED sinkSeen
    /\ UNCHANGED <<pc, binPath, newErr, url, opts, ctxDone, proc, src, runErr,
                   result, err>>
    /\ UNCHANGED cbReturned
    /\ UNCHANGED otherVars

\* the sink's Write returns: it took the whole chunk ("ok"), failed ("err"),
\* or took fewer bytes than the chunk without an error ("short")
SinkReturn(s, outcome) ==
    /\ wpc[s] = "sink"
    /\ sinkSeen' = [sinkSeen EXCEPT ![s] = IF outcome = "err" THEN "erred" ELSE @]
    /\ Deliver(s, chunk[s], outcome)
    /\ UNCHANGED <<pc, binPath, newErr, url, opts, ctxDone, proc, src, pos, runErr,
                   result, err>>
    /\ UNCHANGED cbReturned
    /\ UNCHANGED otherVars

\* the progress callback returns and the byte loop goes on
CallbackReturn ==
    /\ wpc["stdout"] = "cb"
    /\ LET f == FeedLoop(lineBuf, rest)
       IN  /\ lineBuf' = f.lineBuf
           /\ rest' = f.rest
           /\ calls' = IF f.called THEN Append(calls, f.upd) ELSE calls
           /\ wpc' = [wpc EXCEPT !["stdout"] = IF f.called THEN "cb" ELSE "idle"]
    /\ UNCHANGED <<pc, binPath, newErr, url, opts, ctxDone, proc, src, pos, chunk,
                   buf, sinkSeen, werr, runErr, failCtx,
                   result, err>>
    /\ cbReturned' = cbReturned + 1
    /\ UNCHANGED otherVars

\* the child is gone and the pipe of stream s is empty: io.Copy returns nil
Eof(s) ==
    /\ pc = "running"
    /\ proc # "running"
    /\ wpc[s] = "idle"
    /\ wpc' = [wpc EXCEPT ![s] = "done"]
    /\ UNCHANGED <<pc, binPath, newErr, url, opts, ctxDone, proc, src, pos, chunk,
                   buf, lineBuf, rest, calls, sinkSeen, werr,
                   runErr, failCtx, result, err>>
    /\ UNCHANGED cbReturned
    /\ UNCHANGED otherVars

\* the error of cmd.Wait: the exit status first, then the copies' errors
WaitErr(p, w) ==
    IF p \in {"exit1", "killed"} THEN "exit"
    ELSE IF \E s \in Streams : w[s] # "nil" THEN "copy"
    ELSE "nil"

\* WaitReturn that does not wait for the two copies to return
WaitReturn_NoDrain ==
    /\ pc = "running"
    /\ proc # "running"
    /\ pc' = "ran"
    /\ runErr' = WaitErr(proc, werr)
    /\ UNCHANGED <<binPath, newErr, url, opts, ctxDone, proc, src, pos, chunk, wpc,
                   buf, lineBuf, rest, calls, sinkSeen, werr,
                   failCtx, result, err>>
    /\ UNCHANGED cbReturned
    /\ UNCHANGED otherVars

\* cmd.Wait returns: the child is gone and both copies have returned
WaitReturn ==
    /\ pc = "running"
    /\ proc # "running"
    /\ \A s \in Streams : wpc[s] \in {"done", "failed"}
    /\ pc' = "ran"
    /\ runErr' = WaitErr(proc, werr)
    /\ UNCHANGED <<binPath, newErr, url, opts, ctxDone, proc, src, pos, chunk, wpc,
                   buf, lineBuf, rest, calls, sinkSeen, werr,
                   failCtx, result, err>>
    /\ UNCHANGED cbReturned
    /\ UNCHANGED otherVars

\* RunError with the stderr bytes attached untrimmed
RunError_NoTrim(re, done, errb) ==
    IF re = "nil" THEN [kind |-> "nil", cause |-> "nil", stderr |-> <<>>]
    ELSE IF done THEN [kind |-> "context done", cause |-> re, stderr |-> <<>>]
    ELSE [kind |-> "yt-dlp failed", cause |-> re, stderr |-> errb]

\* the error Download returns for a failed run
RunError(re, done, errb) ==
    IF re = "nil" THEN NoErr
    ELSE IF done THEN Err("context done", re, <<>>)
    ELSE Err("yt-dlp failed", re, TrimSpace(errb))

\* Download after cmd.Run: the result and the error
DownloadReturn ==
    /\ pc = "ran"
    /\ pc' = "returned"
    /\ result' = Result(buf["stdout"], buf["stderr"])
    /\ err' = RunError(runErr, ctxDone, buf["stderr"])
    /\ UNCHANGED <<binPath, newErr, url, opts, ctxDone, proc, src, pos, chunk, wpc,
                   buf, lineBuf, rest, calls, sinkSeen, werr,
                   runErr, failCtx>>
    /\ UNCHANGED cbReturned
    /\ UNCHANGED otherVars

Paths == {"", "missing", "/usr/local/bin/yt-dlp"}
Urls == {"", "https://youtu.be/v"}
\* SameSink: Options.Stdout and Options.Stderr are the same object
OptionsSet ==
    {o \in [Progress : BOOLEAN, Stdout : BOOLEAN, Stderr : BOOLEAN,
            SameSink : BOOLEAN] : o.SameSink => (o.Stdout /\ o.Stderr)}
Outcomes == {"ok", "err", "short"}

Next ==
    \/ \E path \in Paths : New(path)
    \/ ZeroValue
    \/ Cancel
    \/ \E u \in Urls, o \in OptionsSet, started \in BOOLEAN,
          out \in StdoutStreams, errs \in StderrStreams :
            DownloadCall(u, o, started, out, errs)
    \/ \E status \in {0, 1} : Exit(status)
    \/ Kill
    \/ \E s \in Streams, k \in 1..MaxChunk : Read(s, k)
    \/ \E s \in Streams, outcome \in Outcomes : SinkReturn(s, outcome)
    \/ CallbackReturn
    \/ \E s \in Streams : Eof(s)
    \/ WaitReturn
    \/ DownloadReturn

Spec == Init /\ [][Next]_vars

\* ------------------------------------------------------ the decoder on one line

\* the byte loop of the stdout writer over a whole chunk, every callback
\* invocation returning at once
RECURSIVE FeedAll(_, _, _)
FeedAll(lb, bs, cs) ==
    LET f == FeedLoop(lb, bs)
    IN  IF f.called
        THEN FeedAll(f.lineBuf, f.rest, Append(cs, f.upd))
        ELSE [lineBuf |-> f.lineBuf, calls |-> cs]

\* progressWrite with a pending line of its own in every Write
progressWrite_LinePerWrite(hasExtra, w, c, outcome) ==
    LET h == progressHead(hasExtra, w.buf, c, outcome)
        f == FeedAll(<<>>, c, w.calls)
    IN  IF h.err # "nil"
        THEN [buf |-> h.buf, lineBuf |-> w.lineBuf, calls |-> w.calls,
              n |-> 0, err |-> h.err]
        ELSE [buf |-> h.buf, lineBuf |-> f.lineBuf, calls |-> f.calls,
              n |-> Len(c), err |-> "nil"]

\* progressWrite with the byte loop run also when the sink failed
progressWrite_FeedOnError(hasExtra, w, c, outcome) ==
    LET h == progressHead(hasExtra, w.buf, c, outcome)
        f == FeedAll(w.lineBuf, c, w.calls)
    IN  [buf |-> h.buf, lineBuf |-> f.lineBuf, calls |-> f.calls,
         n |-> IF h.err # "nil" THEN 0 ELSE Len(c), err |-> h.err]

\* one Write of the writer of progressWriter(callback, extra), every callback
\* invocation returning at once; w is its buffer, pending line and the updates
\* delivered before; n is the byte count it returns
progressWrite(hasExtra, w, c, outcome) ==
    LET h == progressHead(hasExtra, w.buf, c, outcome)
        f == FeedAll(w.lineBuf, c, w.calls)
    IN  IF h.err # "nil"
        THEN [buf |-> h.buf, lineBuf |-> w.lineBuf, calls |-> w.calls,
              n |-> 0, err |-> h.err]
        ELSE [buf |-> h.buf, lineBuf |-> f.lineBuf, calls |-> f.calls,
              n |-> Len(c), err |-> "nil"]

Pads == {[i \in 1..k |-> w] : k \in 0..MaxPad, w \in {" ", "\t"}}

Percent425 == <<"4", "2", ".", "5", "%">>
Eta0010 == <<"0", "0", ":", "1", "0">>
Speed12 == <<"1", ".", "2", "M", "i", "B", "/", "s">>

\* the three fields, each padded, joined by '|'
PaddedLine(f1, f2, f3, p) ==
    p[1] \o f1 \o p[2] \o <<"|">> \o p[3] \o f2 \o p[4] \o <<"|">>
         \o p[5] \o f3 \o p[6]

\* lines "42.5%|00:10|1.2MiB/s" with whitespace around each field
PaddedProgressLines ==
    {PaddedLine(Percent425, Eta0010, Speed12, p) : p \in [1..6 -> Pads]}

\* other percent fields, and lines that are no three-field records
OtherPercents ==
    {<<"4", "2", ".", "5">>, <<"N", "/", "A", "%">>, <<"n", "/", "a">>, <<"%">>,
     <<>>, <<"4", "x", "%">>, <<"0", "4", "2", ".", "5", "0", "%">>}
Unknown == <<"U", "n", "k", "n", "o", "w", "n">>
\* what yt-dlp prints before it knows the size: "N/A%|Unknown|Unknown"
UnknownLine == <<"N", "/", "A", "%", "|">> \o Unknown \o <<"|">> \o Unknown
TwoFieldLine == Percent425 \o <<"|">> \o Eta0010
OtherLines ==
    {PaddedLine(f1, Eta0010, Speed12, [i \in 1..6 |-> w]) :
        f1 \in OtherPercents, w \in Pads}
    \cup {<<>>, TwoFieldLine, UnknownLine,
          Percent425 \o <<"|">> \o Eta0010 \o <<"|">> \o Speed12 \o <<"|">>}

ParseLines == PaddedProgressLines \cup OtherLines

\* the line the child prints after pLine
NextLine == <<"5", "0", "%", "|", "1", "|", "2">>

InitParse ==
    /\ InitDownload
    /\ InitArgsOff
    /\ InitWritersOff
    /\ InitChunksOff
    /\ pLine \in ParseLines
    /\ pCalls = <<>>
    /\ pPending = <<>>
    /\ pErr = "nil"
    /\ pState = "line"

\* the stdout writer with a callback and no sink is written pLine and a line
\* feed
DecodeLine ==
    /\ pState = "line"
    /\ LET w == progressWrite(FALSE,
                              [buf |-> <<>>, lineBuf |-> pPending, calls |-> pCalls],
                              pLine \o <<"\n">>, "none")
       IN  /\ pCalls' = w.calls
           /\ pPending' = w.lineBuf
           /\ pErr' = w.err
    /\ pState' = "decoded"
    /\ UNCHANGED pLine
    /\ UNCHANGED <<dlVars, aVars, wVars, cVars>>

\* the same writer is then written NextLine and a line feed
DecodeNext ==
    /\ pState = "decoded"
    /\ pErr = "nil"
    /\ LET w == progressWrite(FALSE,
                              [buf |-> <<>>, lineBuf |-> pPending, calls |-> pCalls],
                              NextLine \o <<"\n">>, "none")
       IN  /\ pCalls' = w.calls
           /\ pPending' = w.lineBuf
           /\ pErr' = w.err
    /\ pState' = "next"
    /\ UNCHANGED pLine
    /\ UNCHANGED <<dlVars, aVars, wVars, cVars>>

NextParse == DecodeLine \/ DecodeNext

SpecParse == InitParse /\ [][NextParse]_vars

\* ------------------------------------------------- the builder of arguments

HeaderNames == {<<"A">>, <<"Z">>, <<"a">>, <<"A", "Z">>}
HeaderValues == {<<"1">>, <<"2">>, <<>>, <<" ">>, <<" ", "1", "\t">>}

\* the header maps with at most MaxHeaders names
HeaderMaps ==
    UNION {[ks -> HeaderValues] :
              ks \in {x \in SUBSET HeaderNames : Cardinality(x) <= MaxHeaders}}

\* the orders in which a range over a map with the names ks may yield them
KeyOrders(ks) ==
    {f \in [1..Cardinality(ks) -> ks] : \A i, j \in DOMAIN f : i # j => f[i] # f[j]}

VideoUrl == <<"u">>

\* the Options buildArgs reads: the four strings all set or all empty
ArgOptions ==
    {[Progress |-> pr,
      OutputTemplate |-> IF set THEN <<"t">> ELSE <<>>,
      Format |-> IF set THEN <<"b">> ELSE <<>>,
      Proxy |-> IF set THEN <<"p">> ELSE <<>>,
      CookiesFile |-> IF set THEN <<"c">> ELSE <<>>,
      Headers |-> h,
      ExtraArgs |-> x] :
        pr \in BOOLEAN, set \in BOOLEAN, h \in HeaderMaps,
        x \in {<<>>, <<<<"-", "v">>>>}}

InitArgs ==
    /\ InitDownload
    /\ InitParseOff
    /\ InitWritersOff
    /\ InitChunksOff
    /\ aOpts \in ArgOptions
    /\ aOrder \in KeyOrders(DOMAIN aOpts.Headers) \X KeyOrders(DOMAIN aOpts.Headers)
    /\ aArgs = <<>>
    /\ aState = "opts"

\* buildArgs is called twice with the same url and Options
BuildArgs ==
    /\ aState = "opts"
    /\ aArgs' = <<buildArgs(VideoUrl, aOpts, aOrder[1]),
                  buildArgs(VideoUrl, aOpts, aOrder[2])>>
    /\ aState' = "built"
    /\ UNCHANGED <<aOpts, aOrder>>
    /\ UNCHANGED <<dlVars, pVars, wVars, cVars>>

NextArgs == BuildArgs

SpecArgs == InitArgs /\ [][NextArgs]_vars

\* ------------------------------------------------- the two stdout writers

\* the bytes a sink takes of chunk c without an error: all of c, none of it
\* when it fails, the first m when it takes fewer bytes than c
SinkTakes(c, outcome, m) ==
    IF outcome = "ok" THEN c
    ELSE IF outcome = "short" THEN SubSeq(c, 1, m)
    ELSE <<>>

InitWriters ==
    /\ InitDownload
    /\ InitParseOff
    /\ InitArgsOff
    /\ InitChunksOff
    /\ wIn \in StdoutStreams
    /\ wExtra \in BOOLEAN
    /\ wP = NewProgressWriter
    /\ wT = NewTeeWriter
    /\ wChunk = <<>>
    /\ wOutcome = "none"
    /\ wSink = <<>>
    /\ wState = "open"

\* the next k bytes are written to the writer progressWriter built with a
\* callback and to the writer teeWriter built without one, the sink of each
\* doing the same; a copy stops at the first write that fails
WriteChunk(k, outcome, m) ==
    /\ wState = "open"
    /\ wP.err = "nil" /\ wT.err = "nil"
    /\ k \in 1..Min(MaxChunk, Len(wIn))
    /\ IF wExtra THEN outcome \in Outcomes ELSE outcome = "none"
    /\ IF outcome = "short" THEN m \in 0..k - 1 ELSE m = 0
    /\ LET c == SubSeq(wIn, 1, k)
       IN  /\ wIn' = SubSeq(wIn, k + 1, Len(wIn))
           /\ wChunk' = c
           /\ wOutcome' = outcome
           /\ wP' = progressWrite(wExtra, wP, c, outcome)
           /\ wT' = teeWrite(wExtra, wT.buf, c, outcome)
           /\ wSink' = wSink \o SinkTakes(c, outcome, m)
    /\ UNCHANGED <<wExtra, wState>>
    /\ UNCHANGED <<dlVars, pVars, aVars, cVars>>

NextWriters ==
    \E k \in 1..MaxChunk, outcome \in Outcomes \cup {"none"}, m \in 0..MaxChunk :
        WriteChunk(k, outcome, m)

SpecWriters == InitWriters /\ [][NextWriters]_vars

\* ------------------------------------------ one stream in two ways of chunks

\* lines of a stream: two records, and a line that is none
ChunkLines == {<<"5", "%", "|", "1", "|", "2">>, <<"7", "|", "|">>, LogLine}

\* two lines and the beginning of a third
ChunkStreams ==
    {JoinLines(<<l1, l2>>) \o <<"9", "|">> : l1 \in ChunkLines, l2 \in ChunkLines}

InitChunks ==
    /\ InitDownload
    /\ InitParseOff
    /\ InitArgsOff
    /\ InitWritersOff
    /\ cStream \in ChunkStreams
    /\ cPos = [x \in Runs |-> 0]
    /\ cWrites = [x \in Runs |-> 0]
    /\ cW = [x \in Runs |-> NewProgressWriter]
    /\ cState = "open"

\* the writer of run x, built with a callback and no sink, is written the next
\* k bytes of the stream
WriteSplit(x, k) ==
    /\ cState = "open"
    /\ k \in 1..Min(MaxSplit, Len(cStream) - cPos[x])
    /\ cW' = [cW EXCEPT ![x] =
                 progressWrite(FALSE, cW[x],
                               SubSeq(cStream, cPos[x] + 1, cPos[x] + k), "none")]
    /\ cPos' = [cPos EXCEPT ![x] = cPos[x] + k]
    /\ cWrites' = [cWrites EXCEPT ![x] = cWrites[x] + 1]
    /\ UNCHANGED <<cStream, cState>>
    /\ UNCHANGED <<dlVars, pVars, aVars, wVars>>

NextChunks == \E x \in Runs, k \in 1..MaxSplit : WriteSplit(x, k)

SpecChunks == InitChunks /\ [][NextChunks]_vars

\* --------------------------------------------------------------------- claims

\* the bytes of stream s handed to its writer so far
Offered(s) == SubSeq(src[s], 1, pos[s])

\* the bytes of stream s in chunks whose write returned without an error
Written(s) ==
    SubSeq(src[s], 1, pos[s] - (IF wpc[s] \in {"sink", "failed"} THEN Len(chunk[s]) ELSE 0))

\* no write to the writer of stream s is in progress
AtRest(s) == wpc[s] \in {"idle", "done", "failed"}

\* C1 as stated: whenever no write is in progress, the buffer of a stream is the
\* concatenation of every chunk handed to its writer, also of a chunk the sink
\* failed on
C1_BufferHoldsEveryChunk ==
    \A s \in Streams : AtRest(s) => buf[s] = Offered(s)

\* C1 as amended: whenever no write is in progress, the buffer of a stream is
\* the concatenation, in arrival order, of the chunks whose write returned
\* without an error; the chunk a write failed on is not in it
C1_BufferHoldsWrittenChunks ==
    \A s \in Streams : AtRest(s) => buf[s] = Written(s)

\* C1 witness: a write failed after earlier chunks were accumulated
C1_Witness ==
    \E s \in Streams :
        /\ wpc[s] = "failed"
        /\ buf[s] # <<>>
        /\ chunk[s] # <<>>
        /\ buf[s] \o chunk[s] = Offered(s)

\* C2: when the sink returns an error for a chunk, for stdout and for stderr,
\* the write fails and the buffer is what it was before the write
C2_SinkErrorLeavesBuffer ==
    [][\A s \in Streams :
          (sinkSeen[s] # "erred" /\ sinkSeen'[s] = "erred")
              => /\ buf'[s] = buf[s]
                 /\ wpc'[s] = "failed"
                 /\ werr'[s] # "nil"]_vars

\* C2 witness: both sinks returned an error, stdout's under a progress
\* callback, each after its buffer had taken earlier chunks
C2_Witness ==
    /\ opts.Progress
    /\ \A s \in Streams :
          /\ sinkSeen[s] = "erred"
          /\ wpc[s] = "failed"
          /\ buf[s] # <<>>
          /\ Len(buf[s]) + Len(chunk[s]) = pos[s]

\* C3 as stated: every line "42.5%|00:10|1.2MiB/s" with whitespace around each
\* field and around the line decodes to percent 42.5, ETA "00:10" and speed
\* "1.2MiB/s", and the callback is invoked once for it
C3_PaddedLineDecodes ==
    (pState = "decoded" /\ pLine \in PaddedProgressLines)
        => pCalls = <<ProgressUpdate(Num(FALSE, 425, 1), Eta0010, Speed12,
                                     TrimSpace(pLine))>>

\* the complete lines of a byte stream: what precedes each line feed
CompleteLines(bytes) ==
    LET parts == Split(bytes, "\n") IN SubSeq(parts, 1, Len(parts) - 1)

\* the updates of the lines that decode, in line order
RECURSIVE DecodedUpdates(_)
DecodedUpdates(ls) ==
    IF ls = <<>> THEN <<>>
    ELSE LET p == parseProgress(TrimSpace(Head(ls)))
         IN  (IF p.ok THEN <<p.upd>> ELSE <<>>) \o DecodedUpdates(Tail(ls))

RunOver == pc \in {"ran", "returned"}

\* C4: with a callback and no sink error, once the run is over the callback
\* invocations are the decoded updates of the complete stdout lines that decode,
\* in line order, one each, and the stdout buffer holds every byte of every line
C4_CallbacksAreDecodedLines ==
    (RunOver /\ opts.Progress /\ werr["stdout"] = "nil")
        => /\ calls = DecodedUpdates(CompleteLines(Offered("stdout")))
           /\ buf["stdout"] = Offered("stdout")

Update(i) == ProgressUpdate(Num(FALSE, i, 0), <<>>, <<>>, ProgressLine(i))

\* C4 witness: Download returned after two progress lines were delivered in
\* order, the partial line pending and every byte in the result
C4_Witness ==
    /\ pc = "returned"
    /\ opts.Progress
    /\ err.kind = "nil"
    /\ calls = <<Update(1), Update(2)>>
    /\ result.Stdout = src["stdout"]

CountLF(bytes) == Cardinality({i \in 1..Len(bytes) : bytes[i] = "\n"})

\* the stdout bytes the byte loop has seen
Fed == SubSeq(buf["stdout"], 1, Len(buf["stdout"]) - Len(rest))

\* C5: the callback is invoked at most once per line feed seen, while the stream
\* is open and after it closed: bytes after the last line feed cause no
\* invocation
C5_NoCallbackWithoutLineFeed ==
    opts.Progress => Len(calls) <= CountLF(Fed)

\* C5 witness: Download returned with a well-formed progress record pending
\* after the last line feed, and one invocation for each of the two line feeds
C5_Witness ==
    /\ pc = "returned"
    /\ opts.Progress
    /\ parseProgress(TrimSpace(lineBuf)).ok
    /\ lineBuf = PartialLine
    /\ Len(calls) = 2
    /\ CountLF(result.Stdout) = 2

\* C6: however the pipe reads cut a stream into chunks, when the copy of the
\* stream ends without a sink error the buffer is the whole byte stream read
C6_ChunkingKeepsBuffer ==
    \A s \in Streams : wpc[s] = "done" => buf[s] = Offered(s)

\* C6 witness: both streams were read to their end, stdout in more chunks than
\* it has lines
C6_Witness ==
    /\ \A s \in Streams : wpc[s] = "done" /\ buf[s] = src[s]
    /\ Len(src["stdout"]) > MaxChunk * (MaxLines + 1)

\* C7 as stated: whenever Download returns an error it returns a Result with
\* the stdout and stderr bytes accumulated so far
C7_ErrorComesWithResult ==
    (pc = "returned" /\ err.kind # "nil")
        => /\ ~result.isNil
           /\ result.Stdout = buf["stdout"]
           /\ result.Stderr = buf["stderr"]

\* C8 as stated: a failed run is reported as "context done" exactly when ctx
\* was done at the time the failure occurred
C8_CancelledIffDoneAtFailure ==
    (pc = "returned" /\ runErr # "nil")
        => (err.kind = "context done" <=> failCtx = "yes")

\* C9 as stated: when the child failed to launch or exited with a non-zero
\* status, killed or not, the error carries the trimmed stderr bytes
C9_FailureCarriesStderr ==
    (pc = "returned" /\ runErr \in {"start", "exit"})
        => err.stderr = TrimSpace(buf["stderr"])

\* C9 as amended: when the child failed to launch or exited with a non-zero
\* status and ctx is not done when Download looks at it after the run, the
\* error carries the trimmed stderr bytes; when ctx is done by then, the error
\* is "context done" without them
C9_PlainFailureCarriesStderr ==
    (pc = "returned" /\ runErr \in {"start", "exit"})
        => IF ctxDone
           THEN err.kind = "context done" /\ err.stderr = <<>>
           ELSE err.kind = "yt-dlp failed" /\ err.stderr = TrimSpace(buf["stderr"])

\* C9 witness: the child exited non-zero after writing "E\n" to stderr, ctx not
\* done, and the error carries "E"
C9_Witness ==
    /\ pc = "returned"
    /\ runErr = "exit"
    /\ ~ctxDone
    /\ buf["stderr"] = <<"E", "\n">>
    /\ err.stderr = <<"E">>

\* C10: a Download with an empty url, or on a downloader without a binary path,
\* has returned a configuration error with no child launched, no sink written
\* to and no callback invoked
C10_ConfigErrorLaunchesNothing ==
    (pc \in {"running", "ran", "returned"} /\ (url = "" \/ binPath = ""))
        => /\ pc = "returned"
           /\ err.kind = (IF url = "" THEN "errURLRequired" ELSE "errBinaryNotConfigured")
           /\ result.isNil
           /\ proc = "none"
           /\ \A s \in Streams : sinkSeen[s] = "unused" /\ buf[s] = <<>>
           /\ calls = <<>>

\* C10 witness: Download on a downloader without a binary path, with both
\* sinks and a callback configured, returned errBinaryNotConfigured
C10_Witness ==
    /\ pc = "returned"
    /\ url # ""
    /\ binPath = ""
    /\ opts.Progress /\ opts.Stdout /\ opts.Stderr
    /\ err.kind = "errBinaryNotConfigured"

\* C11: at most one invocation of the progress callback has started and not
\* returned, whatever the two copies are doing: an invocation starts only after
\* the one before it returned
C11_CallbackNeverOverlaps ==
    /\ Len(calls) - cbReturned \in {0, 1}
    /\ Len(calls) - cbReturned = 1 <=> wpc["stdout"] = "cb"

\* C11 witness: the second invocation is executing, the first has returned, and
\* a write to the stderr sink is in progress at the same time
C11_Witness ==
    /\ opts.Progress
    /\ Len(calls) = 2
    /\ cbReturned = 1
    /\ wpc["stdout"] = "cb"
    /\ wpc["stderr"] = "sink"

\* the percent field as parseProgress normalizes it, and as trimming the field
\* before stripping one '%' normalizes it
PercentForms(field) ==
    {TrimSpace(TrimSuffix(field, "%")), TrimSpace(TrimSuffix(TrimSpace(field), "%"))}

\* a line that is no record: not three fields, or a percent field that
\* normalizes to nothing or to "N/A" in any case
NoRecord(line) ==
    LET parts == Split(line, "|")
    IN  \/ Len(parts) # 3
        \/ \E f \in PercentForms(parts[1]) :
               f = <<>> \/ Lower(f) = <<"n", "/", "a">>

NextUpdate == ProgressUpdate(Num(FALSE, 50, 0), <<"1">>, <<"2">>, NextLine)

\* C12: a line that does not split into three fields, or whose percent field
\* normalizes to nothing or to "N/A" in any case, causes no callback invocation
\* and no error of the write, leaves nothing pending, and the line after it is
\* decoded and delivered
C12_NoRecordIsSkipped ==
    (pState \in {"decoded", "next"} /\ NoRecord(pLine))
        => /\ pErr = "nil"
           /\ pPending = <<>>
           /\ pCalls = (IF pState = "next" THEN <<NextUpdate>> ELSE <<>>)

\* C12 witness: "N/A%|Unknown|Unknown" was skipped and the line after it
\* delivered
C12_Witness ==
    /\ pState = "next"
    /\ pLine = UnknownLine
    /\ pCalls = <<NextUpdate>>

\* the tokens that follow an --add-header flag, in order
RECURSIVE HeaderTokens(_)
HeaderTokens(args) ==
    IF Len(args) < 2 THEN <<>>
    ELSE IF Head(args) = FlagAddHeader
    THEN <<args[2]>> \o HeaderTokens(Tail(Tail(args)))
    ELSE HeaderTokens(Tail(args))

\* the header names whose trimmed value is not empty
SentNames(h) == {k \in DOMAIN h : TrimSpace(h[k]) # <<>>}

\* C13: the built arguments hold one header flag for each name whose trimmed
\* value is not empty and none for the other names, the flag of the name with
\* i-1 smaller names in i-th place, and two builds from the same Options give
\* the same arguments whatever the order in which the map yields its names
C13_HeadersSortedOncePerName ==
    aState = "built"
        => LET hs == HeaderTokens(aArgs[1])
               sent == SentNames(aOpts.Headers)
           IN  /\ Len(hs) = Cardinality(sent)
               /\ \A i \in 1..Len(hs) :
                     \E k \in sent :
                        /\ Cardinality({k2 \in sent : StrLess(k2, k)}) = i - 1
                        /\ hs[i] = k \o <<":">> \o TrimSpace(aOpts.Headers[k])
               /\ aArgs[1] = aArgs[2]

\* C13 witness: headers {"Z":"1","A":"2"}, the map yielding Z first in one build
\* and A first in the other, and the A flag precedes the Z flag
C13_Witness ==
    /\ aState = "built"
    /\ DOMAIN aOpts.Headers = {<<"A">>, <<"Z">>}
    /\ aOpts.Headers[<<"Z">>] = <<"1">>
    /\ aOpts.Headers[<<"A">>] = <<"2">>
    /\ aOrder = << <<(<<"Z">>), (<<"A">>)>>, <<(<<"A">>), (<<"Z">>)>> >>
    /\ HeaderTokens(aArgs[1]) = <<(<<"A", ":", "2">>), (<<"Z", ":", "1">>)>>

\* C14: in a step in which the sink fails a chunk written to the writer with a
\* callback, the pending line and the invocations of the callback stay as they
\* are, and the write returns zero bytes and an error
C14_RejectedChunkIsNotFed ==
    [][(wOutcome' = "err" /\ wIn' # wIn)
          => /\ wP'.lineBuf = wP.lineBuf
             /\ wP'.calls = wP.calls
             /\ wP'.n = 0
             /\ wP'.err # "nil"]_vars

\* C14 witness: the sink failed a chunk that completes the pending line to a
\* record that decodes, and no callback was invoked for it
C14_Witness ==
    /\ wOutcome = "err"
    /\ wP.err # "nil"
    /\ wP.lineBuf # <<>>
    /\ wP.calls = <<>>
    /\ DecodedUpdates(CompleteLines(wP.lineBuf \o wChunk)) # <<>>

IsPrefix(a, b) == Len(a) <= Len(b) /\ a = SubSeq(b, 1, Len(a))

\* C15 as stated: with a sink configured, the buffer of the writer with a
\* callback and the buffer of the writer without one are each a prefix of the
\* bytes the sink took without an error
C15_BufferWithinSink ==
    (wState = "open" /\ wExtra)
        => IsPrefix(wP.buf, wSink) /\ IsPrefix(wT.buf, wSink)

\* C20 as stated: after the same chunks and the same behaviour of the sink, the
\* writer built with a callback and the writer built without one have the same
\* buffer, and the last write failed for both or for neither
C20_CallbackKeepsTee ==
    wState = "open"
        => /\ wP.buf = wT.buf
           /\ wP.err = "nil" <=> wT.err = "nil"

\* the bytes after the last line feed
AfterLastLF(bytes) ==
    LET parts == Split(bytes, "\n") IN parts[Len(parts)]

\* C16: with a callback, whenever no write to the stdout writer is in progress
\* the pending line has no line feed and is the bytes after the last line feed
\* of the bytes written without an error, whether or not the lines before it
\* decoded, and while the callback is executing the pending line is empty
C16_PendingIsAfterLastLineFeed ==
    opts.Progress
        => /\ AtRest("stdout")
                => /\ CountLF(lineBuf) = 0
                   /\ lineBuf = AfterLastLF(buf["stdout"])
           /\ wpc["stdout"] = "cb" => lineBuf = <<>>

\* C16 witness: a line that does not decode was followed by a record; the
\* callback is executing for the record and nothing of either line is pending
C16_Witness ==
    /\ opts.Progress
    /\ wpc["stdout"] = "cb"
    /\ calls = <<Update(2)>>
    /\ IsPrefix(LogLine \o <<"\n">> \o ProgressLine(2) \o <<"\n">>, buf["stdout"])
    /\ lineBuf = <<>>

\* C17: a step that constructs the Result is taken when the child is gone and
\* both copies have returned, and gives it the bytes of the two buffers; no step
\* after it changes a buffer, the invocations of the callback or the Result
C17_ResultAfterDrain ==
    [][/\ (pc # "returned" /\ pc' = "returned" /\ ~result'.isNil)
            => /\ proc # "running"
               /\ proc # "none" => \A s \in Streams : wpc[s] \in {"done", "failed"}
               /\ result'.Stdout = buf["stdout"]
               /\ result'.Stderr = buf["stderr"]
       /\ pc = "returned"
            => /\ buf' = buf
               /\ calls' = calls
               /\ cbReturned' = cbReturned
               /\ result' = result]_vars

\* C17 witness: the child was killed after the callback had been invoked, the
\* stdout copy stopped on a sink error, the stderr copy read to the end, and
\* Download returned a Result with the bytes of both buffers
C17_Witness ==
    /\ pc = "returned"
    /\ proc = "killed"
    /\ calls # <<>>
    /\ wpc["stdout"] = "failed"
    /\ wpc["stderr"] = "done"
    /\ ~result.isNil
    /\ result.Stdout = buf["stdout"] /\ result.Stdout # <<>>
    /\ result.Stderr = src["stderr"]

\* C18: of two runs over the same stdout bytes cut into chunks in two ways, the
\* run that was written no more bytes than the other has had a prefix of the
\* other's callback invocations, update for update; written the same bytes, the
\* two have had the same invocations and have the same line pending
C18_ChunkingKeepsUpdates ==
    cState = "open"
        => \A x, y \in Runs :
              /\ cPos[x] <= cPos[y] => IsPrefix(cW[x].calls, cW[y].calls)
              /\ cPos[x] = cPos[y] => cW[x].lineBuf = cW[y].lineBuf

\* C18 witness: the whole stream was written byte by byte in one run and in the
\* fewest writes in the other, and both delivered the same two updates
C18_Witness ==
    /\ cState = "open"
    /\ \A x \in Runs : cPos[x] = Len(cStream)
    /\ cWrites["A"] = Len(cStream)
    /\ cWrites["B"] * MaxSplit < Len(cStream) + MaxSplit
    /\ Len(cW["A"].calls) = 2
    /\ cW["A"].calls = cW["B"].calls

\* the caller's object behind the sink of stream s
SinkOf(s) == IF opts.SameSink THEN "shared" ELSE s

\* the streams whose writer is inside a Write of the caller's object k
WritesInProgress(k) ==
    {s \in Streams : HasExtra(s) /\ SinkOf(s) = k /\ wpc[s] = "sink"}

\* C19 as stated: no object the caller gave as a sink has two writes in
\* progress at once, also when one object is the sink of both streams
C19_OneWritePerSink ==
    \A k \in {SinkOf(s) : s \in Streams} : Cardinality(WritesInProgress(k)) <= 1

====
